---- MODULE Spec2Model ----
(***************************************************************************)
(* StravaClient (src/strava_client.py): the token lifecycle, the paginated *)
(* activity fetch and the normalisation of raw activities into a table.    *)
(*                                                                         *)
(* Spec   : one StravaClient instance, its calls of get_recent_activities, *)
(*          the token endpoint and the activities endpoint as environment, *)
(*          and the clock read by _ensure_token.                           *)
(* SpecDf : activities_to_df applied to bounded lists of raw activities.   *)
(***************************************************************************)
EXTENDS Integers, Sequences, FiniteSets, TLC

VARIABLES
    now,              \* int(time.time())
    tokens,           \* self.tokens: None or <<StravaTokens>>
    refresh_token,    \* self.refresh_token
    issued,           \* token endpoint: number of credentials issued so far
    calls,            \* number of get_recent_activities calls started
    pc,               \* position of the current get_recent_activities call
    max_activities,   \* argument of the current call
    per_page,         \* argument of the current call
    headers,          \* local `headers`: None or <<bearer access token>>
    activities,       \* local `activities`
    page,             \* local `page`
    result,           \* value returned to the caller: None or <<list>>
    failedAt,         \* which request raised: "none", "refresh", "page"
    posts,            \* token exchanges attempted by the current call
    getLog,           \* activity-listing requests issued by the current call
    tokens0,          \* self.tokens when the current call started
    refresh_token0,   \* self.refresh_token when the current call started
    stale0,           \* whether the current call started without a credential
                      \* or with one expiring within the margin
    lastData,         \* body of the most recent successful exchange, or None
    raw_acts,         \* argument of activities_to_df
    df,               \* outcome of activities_to_df
    dfpc              \* "input" before activities_to_df ran, "done" after

vars == <<now, tokens, refresh_token, issued, calls, pc, max_activities,
          per_page, headers, activities, page, result, failedAt, posts,
          getLog, tokens0, refresh_token0, stale0, lastData, raw_acts, df, dfpc>>

clientVars == <<now, tokens, refresh_token, issued, calls, pc, max_activities,
                per_page, headers, activities, page, result, failedAt, posts,
                getLog, tokens0, refresh_token0, stale0, lastData>>

dfVars == <<raw_acts, df, dfpc>>

(***************************************************************************)
(* Bounds of the model.                                                    *)
(***************************************************************************)
MaxCalls == 2
MaxActs == 3
MaxPerPage == 2
MaxTime == 60
MaxRows == 2

\* the clock advances in steps of these sizes
TickSteps == {30}
\* lifetimes (expires_at - now) the token endpoint may grant
ExpiresIn == {60, 61, 91}

(***************************************************************************)
(* Optional values.                                                        *)
(***************************************************************************)
None == <<>>

Some(x) == <<x>>

Min(a, b) == IF a < b THEN a ELSE b

Take(s, n) == SubSeq(s, 1, Min(n, Len(s)))

(***************************************************************************)
(* Token management.                                                       *)
(***************************************************************************)
ExpiryMargin == 60

\* the refresh token handed to the constructor
CtorRefreshToken == 0

NeedsRefresh_Off(tok, t) ==
    IF tok = None THEN TRUE ELSE tok[1].expires_at <= t + ExpiryMargin + 1

\* _ensure_token's condition
NeedsRefresh(tok, t) ==
    IF tok = None THEN TRUE ELSE tok[1].expires_at <= t + ExpiryMargin

\* the form posted to the token endpoint (client_id and client_secret are fixed)
RefreshPayload(rt) == [grant_type |-> "refresh_token", refresh_token |-> rt]

\* the bodies the token endpoint may answer with at time t: a new access
\* token, the refresh token rotated or not, any lifetime
ProviderResponses(sent, n, t) ==
    { [access_token |-> n + 1, refresh_token |-> r, expires_at |-> t + e] :
        r \in {sent, n + 1}, e \in ExpiresIn }

TokensFrom(data) ==
    [access_token |-> data.access_token,
     refresh_token |-> data.refresh_token,
     expires_at |-> data.expires_at]

StoredRefreshAfter_Keep(data, old) == old

\* self.refresh_token after a successful exchange
StoredRefreshAfter(data, old) == data.refresh_token

EnsurePcs == {"ensure1", "ensure2"}

\* what a completed _ensure_token is followed by: the second one is inside
\* _get_headers, which builds the header, and then the loop's locals are set
AfterEnsure(p, tok) ==
    IF p = "ensure1"
    THEN /\ pc' = "ensure2"
         /\ UNCHANGED <<headers, activities, page>>
    ELSE /\ pc' = "loop"
         /\ headers' = Some(tok[1].access_token)
         /\ activities' = <<>>
         /\ page' = 1

(***************************************************************************)
(* Pagination.                                                             *)
(***************************************************************************)
\* the records of page p when the provider answers with n of them
Chunk(p, n) == [i \in 1..n |-> <<p, i>>]

LoopCond_Le(acts, m) == Len(acts) <= m

LoopCond(acts, m) == Len(acts) < m

NextPage(p) == p + 1

ReturnValue_All(acts, m) == acts

ReturnValue(acts, m) == Take(acts, m)

PageFailOutcome_Partial(acts, m) == [pc |-> "done", result |-> Some(Take(acts, m))]

\* raise_for_status (or requests.get) raising inside the loop
PageFailOutcome(acts, m) == [pc |-> "failed", result |-> None]

GetEntry(ok, n) ==
    [page |-> page, per_page |-> per_page, bearer |-> headers[1],
     fresh |-> tokens[1].expires_at > now + ExpiryMargin, ok |-> ok, size |-> n]

(***************************************************************************)
(* activities_to_df.  Floats are exact rationals [isna, num, den]; den = 0 *)
(* with num # 0 is the infinity a float division by zero gives.  Only the  *)
(* columns the function computes with are carried; the pass-through        *)
(* columns (id, name, type, ...) are present in every record and copied.   *)
(***************************************************************************)
NaN == [isna |-> TRUE, num |-> 0, den |-> 1]

Num(n) == [isna |-> FALSE, num |-> n, den |-> 1]

\* a raw JSON field: absent from the record, or a number
Absent == [present |-> FALSE, v |-> 0]

Val(n) == [present |-> TRUE, v |-> n]

\* json_normalize: a key absent from a record is NaN in its column
Cell(f) == IF f.present THEN Num(f.v) ELSE NaN

RECURSIVE GCD(_, _)
GCD(a, b) == IF b = 0 THEN a ELSE GCD(b, a % b)

\* the rational n / d (d > 0) in lowest terms
Ratio(n, d) ==
    LET g == GCD(IF n < 0 THEN -n ELSE n, d)
    IN [isna |-> FALSE, num |-> n \div g, den |-> d \div g]

\* series / k
DivK(a, k) == IF a.isna THEN NaN ELSE Ratio(a.num, a.den * k)

\* series / series, with float semantics for a zero divisor
DivR(a, b) ==
    IF a.isna \/ b.isna THEN NaN
    ELSE IF b.num = 0
         THEN (IF a.num = 0 THEN NaN ELSE [isna |-> FALSE, num |-> a.num, den |-> 0])
         ELSE IF b.num > 0
              THEN Ratio(a.num * b.den, a.den * b.num)
              ELSE Ratio(-(a.num * b.den), -(a.den * b.num))

\* series > 0 (False for NaN)
Gt0(a) == ~a.isna /\ a.num > 0 /\ a.den > 0

FillNa0(a) == IF a.isna THEN Num(0) ELSE a

\* start_date_local of a raw record: absent, a JSON number, or a JSON string
RawDates ==
    { [kind |-> "absent", s |-> ""],
      [kind |-> "int", s |-> "20240501"],
      [kind |-> "str", s |-> "not a date"],
      [kind |-> "str", s |-> "2024-05-01T07:00:00Z"] }

RawActs ==
    [start_date_local : RawDates,
     distance : {Absent, Val(0), Val(5000)},
     moving_time : {Absent, Val(1500)},
     total_elevation_gain : {Absent, Val(12)}]

\* dateutil's parser on the strings of the model: the date (year, day of the
\* year counted from 0, second of the day) of those it can read
KnownDates ==
    [s \in {"2024-05-01T07:00:00Z"} |-> [year |-> 2024, ord |-> 121, sec |-> 25200]]

Parseable(s) == s \in DOMAIN KnownDates

NaT == [nat |-> TRUE, year |-> 0, ord |-> 0, sec |-> 0]

Timestamp(y, o, sec) == [nat |-> FALSE, year |-> y, ord |-> o, sec |-> sec]

\* the lambda of line 123 on a value it does not raise on
ParseCell(d) ==
    IF d.kind = "str"
    THEN Timestamp(KnownDates[d.s].year, KnownDates[d.s].ord, KnownDates[d.s].sec)
    ELSE NaT

\* whether the lambda of line 123 raises on the value (dateutil's ParserError)
ParseRaises(d) == d.kind = "str" /\ ~Parseable(d.s)

\* first day of each month of 2024, as day of the year counted from 0
MonthStarts == <<0, 31, 60, 91, 121, 152, 182, 213, 244, 274, 305, 335>>

DateOf(ts) == IF ts.nat THEN NaT ELSE Timestamp(ts.year, ts.ord, 0)

YearOf(ts) == IF ts.nat THEN NaN ELSE Num(ts.year)

MonthOf(ts) ==
    IF ts.nat THEN NaT
    ELSE LET m == CHOOSE k \in 1..12 :
                    /\ MonthStarts[k] <= ts.ord
                    /\ \A j \in 1..12 : MonthStarts[j] <= ts.ord => j <= k
         IN Timestamp(ts.year, MonthStarts[m], 0)

\* to_period("W").dt.start_time: the Monday of the week (1 January 2024 is one)
WeekOf(ts) == IF ts.nat THEN NaT ELSE Timestamp(ts.year, ts.ord - (ts.ord % 7), 0)

HasDateCol(raw) == \E i \in 1..Len(raw) : raw[i].start_date_local.kind # "absent"

HasCol(raw, f) == \E i \in 1..Len(raw) : raw[i][f].present

RunMask_Ge(distance_km) == ~distance_km.isna /\ distance_km.num >= 0

\* run_mask of line 139
RunMask(distance_km) == Gt0(distance_km)

Pace(moving_time_s, distance_km) ==
    IF RunMask(distance_km)
    THEN DivR(DivK(moving_time_s, 60), distance_km)
    ELSE NaN

NormalizeRow(r) ==
    LET ts == ParseCell(r.start_date_local)
        distance_m == Cell(r.distance)
        moving_time_s == Cell(r.moving_time)
        distance_km == DivK(distance_m, 1000)
    IN [start_date_local |-> ts,
        date |-> DateOf(ts),
        year |-> YearOf(ts),
        month |-> MonthOf(ts),
        week |-> WeekOf(ts),
        distance_m |-> distance_m,
        moving_time_s |-> moving_time_s,
        elev_gain_m |-> FillNa0(Cell(r.total_elevation_gain)),
        distance_km |-> distance_km,
        moving_time_h |-> DivK(moving_time_s, 3600),
        pace_min_per_km |-> Pace(moving_time_s, distance_km)]

NoDf == [ok |-> TRUE, error |-> "", rows |-> <<>>]

Raised(e) == [ok |-> FALSE, error |-> e, rows |-> <<>>]

ActivitiesToDf(raw) ==
    IF raw = <<>> THEN NoDf
    ELSE IF ~HasDateCol(raw) THEN Raised("KeyError")
    ELSE IF \E i \in 1..Len(raw) : ParseRaises(raw[i].start_date_local)
         THEN Raised("ParserError")
    ELSE IF ~HasCol(raw, "distance") THEN Raised("KeyError")
    ELSE IF ~HasCol(raw, "moving_time") THEN Raised("KeyError")
    ELSE IF ~HasCol(raw, "total_elevation_gain") THEN Raised("KeyError")
    ELSE [ok |-> TRUE, error |-> "",
          rows |-> [i \in 1..Len(raw) |-> NormalizeRow(raw[i])]]

(***************************************************************************)
(* Actions of a StravaClient.                                              *)
(***************************************************************************)
InitClient ==
    /\ now = 0
    /\ tokens = None
    /\ refresh_token = CtorRefreshToken
    /\ issued = 0
    /\ calls = 0
    /\ pc = "idle"
    /\ max_activities = 1
    /\ per_page = 1
    /\ headers = None
    /\ activities = <<>>
    /\ page = 1
    /\ result = None
    /\ failedAt = "none"
    /\ posts = <<>>
    /\ getLog = <<>>
    /\ tokens0 = None
    /\ refresh_token0 = CtorRefreshToken
    /\ stale0 = TRUE
    /\ lastData = None

Init ==
    /\ InitClient
    /\ raw_acts = <<>>
    /\ df = NoDf
    /\ dfpc = "input"

Tick(d) ==
    /\ now + d <= MaxTime
    /\ now' = now + d
    /\ UNCHANGED <<tokens, refresh_token, issued, calls, pc, max_activities,
                   per_page, headers, activities, page, result, failedAt,
                   posts, getLog, tokens0, refresh_token0, stale0, lastData>>
    /\ UNCHANGED dfVars

StartCall(m, pp) ==
    /\ pc \in {"idle", "done", "failed"}
    /\ calls < MaxCalls
    /\ calls' = calls + 1
    /\ pc' = "ensure1"
    /\ max_activities' = m
    /\ per_page' = pp
    /\ headers' = None
    /\ activities' = <<>>
    /\ page' = 1
    /\ result' = None
    /\ failedAt' = "none"
    /\ posts' = <<>>
    /\ getLog' = <<>>
    /\ tokens0' = tokens
    /\ refresh_token0' = refresh_token
    /\ stale0' = (IF tokens = None THEN TRUE
                  ELSE tokens[1].expires_at <= now + ExpiryMargin)
    /\ UNCHANGED <<now, tokens, refresh_token, issued, lastData>>
    /\ UNCHANGED dfVars

EnsureSkip ==
    /\ pc \in EnsurePcs
    /\ ~NeedsRefresh(tokens, now)
    /\ AfterEnsure(pc, tokens)
    /\ UNCHANGED <<now, tokens, refresh_token, issued, calls, max_activities,
                   per_page, result, failedAt, posts, getLog, tokens0,
                   refresh_token0, stale0, lastData>>
    /\ UNCHANGED dfVars

RefreshOk ==
    /\ pc \in EnsurePcs
    /\ NeedsRefresh(tokens, now)
    /\ \E data \in ProviderResponses(RefreshPayload(refresh_token).refresh_token,
                                     issued, now) :
        /\ tokens' = Some(TokensFrom(data))
        /\ refresh_token' = StoredRefreshAfter(data, refresh_token)
        /\ posts' = Append(posts,
                           [sent |-> RefreshPayload(refresh_token).refresh_token,
                            latest |-> lastData, ok |-> TRUE])
        /\ lastData' = Some(data)
        /\ AfterEnsure(pc, Some(TokensFrom(data)))
    /\ issued' = issued + 1
    /\ UNCHANGED <<now, calls, max_activities, per_page, result, failedAt,
                   getLog, tokens0, refresh_token0, stale0>>
    /\ UNCHANGED dfVars

RefreshFail ==
    /\ pc \in EnsurePcs
    /\ NeedsRefresh(tokens, now)
    /\ posts' = Append(posts,
                       [sent |-> RefreshPayload(refresh_token).refresh_token,
                        latest |-> lastData, ok |-> FALSE])
    /\ pc' = "failed"
    /\ failedAt' = "refresh"
    /\ UNCHANGED <<now, tokens, refresh_token, issued, calls, max_activities,
                   per_page, headers, activities, page, result, getLog,
                   tokens0, refresh_token0, stale0, lastData>>
    /\ UNCHANGED dfVars

GetPageOk(n) ==
    /\ pc = "loop"
    /\ LoopCond(activities, max_activities)
    /\ getLog' = Append(getLog, GetEntry(TRUE, n))
    /\ IF n = 0
       THEN /\ pc' = "done"
            /\ result' = Some(ReturnValue(activities, max_activities))
            /\ UNCHANGED <<activities, page>>
       ELSE /\ activities' = activities \o Chunk(page, n)
            /\ page' = NextPage(page)
            /\ UNCHANGED <<pc, result>>
    /\ UNCHANGED <<now, tokens, refresh_token, issued, calls, max_activities,
                   per_page, headers, failedAt, posts, tokens0,
                   refresh_token0, stale0, lastData>>
    /\ UNCHANGED dfVars

GetPageFail ==
    /\ pc = "loop"
    /\ LoopCond(activities, max_activities)
    /\ getLog' = Append(getLog, GetEntry(FALSE, 0))
    /\ pc' = PageFailOutcome(activities, max_activities).pc
    /\ result' = PageFailOutcome(activities, max_activities).result
    /\ failedAt' = "page"
    /\ UNCHANGED <<now, tokens, refresh_token, issued, calls, max_activities,
                   per_page, headers, activities, page, posts, tokens0,
                   refresh_token0, stale0, lastData>>
    /\ UNCHANGED dfVars

LoopExit ==
    /\ pc = "loop"
    /\ ~LoopCond(activities, max_activities)
    /\ pc' = "done"
    /\ result' = Some(ReturnValue(activities, max_activities))
    /\ UNCHANGED <<now, tokens, refresh_token, issued, calls, max_activities,
                   per_page, headers, activities, page, failedAt, posts,
                   getLog, tokens0, refresh_token0, stale0, lastData>>
    /\ UNCHANGED dfVars

Next ==
    \/ \E d \in TickSteps : Tick(d)
    \/ \E m \in 1..MaxActs, pp \in 1..MaxPerPage : StartCall(m, pp)
    \/ EnsureSkip
    \/ RefreshOk
    \/ RefreshFail
    \/ \E n \in 0..per_page : GetPageOk(n)
    \/ GetPageFail
    \/ LoopExit

Spec == Init /\ [][Next]_vars

(***************************************************************************)
(* activities_to_df on every list of at most MaxRows raw activities.       *)
(***************************************************************************)
InitDf ==
    /\ InitClient
    /\ raw_acts \in UNION { [1..n -> RawActs] : n \in 0..MaxRows }
    /\ df = NoDf
    /\ dfpc = "input"

Normalize ==
    /\ dfpc = "input"
    /\ df' = ActivitiesToDf(raw_acts)
    /\ dfpc' = "done"
    /\ UNCHANGED raw_acts
    /\ UNCHANGED clientVars

NextDf == Normalize

SpecDf == InitDf /\ [][NextDf]_vars

(***************************************************************************)
(* Helpers of the properties.                                              *)
(***************************************************************************)
RECURSIVE Served(_)
\* the records of the pages answered so far, in the order of the requests
Served(log) ==
    IF log = <<>> THEN <<>>
    ELSE Served(SubSeq(log, 1, Len(log) - 1))
            \o [i \in 1..log[Len(log)].size |-> <<log[Len(log)].page, i>>]

StaleOrNone(tok, t) == IF tok = None THEN TRUE ELSE tok[1].expires_at <= t + 60

LatestRefreshToken(latest) ==
    IF latest = None THEN CtorRefreshToken ELSE latest[1].refresh_token

BadDate(d) == d.kind = "int" \/ d.kind = "absent" \/ (d.kind = "str" /\ ~Parseable(d.s))

AllColumns(raw) ==
    /\ HasDateCol(raw)
    /\ HasCol(raw, "distance")
    /\ HasCol(raw, "moving_time")
    /\ HasCol(raw, "total_elevation_gain")

PacePresent(row) == ~row.pace_min_per_km.isna

(***************************************************************************)
(* C1: no activity-listing request is issued with a credential whose       *)
(* expires_at is within 60 seconds of the clock at the moment of the       *)
(* request, the 2nd and later pages of a call included.  The code checks   *)
(* the credential only before the loop, so a later page can be sent with a *)
(* credential that has come within the margin: this is violated.           *)
(***************************************************************************)
C1_EveryRequestFresh ==
    \A i \in 1..Len(getLog) : getLog[i].fresh

(***************************************************************************)
(* C2: a call that starts with no credential, or with one expiring within  *)
(* 60 of the clock, makes exactly one refresh exchange before its first    *)
(* activity-listing request.  get_recent_activities runs _ensure_token     *)
(* twice, so a short-lived credential from the first exchange is exchanged *)
(* again: this is violated.                                                *)
(***************************************************************************)
C2_ExactlyOneRefresh ==
    (stale0 /\ getLog # <<>>) => Len(posts) = 1

(***************************************************************************)
(* C3: when the held credential expires more than 60 after the clock, the  *)
(* _ensure_token step makes no refresh exchange and leaves the credential  *)
(* and the stored refresh token unchanged.                                 *)
(***************************************************************************)
C3_ValidCredentialUntouched ==
    [][ ( /\ pc \in EnsurePcs
          /\ pc' # pc
          /\ tokens # None
          /\ ~StaleOrNone(tokens, now) )
        => ( /\ tokens' = tokens
             /\ refresh_token' = refresh_token
             /\ posts' = posts
             /\ issued' = issued
             /\ pc' # "failed" ) ]_vars

C3_Witness ==
    /\ pc = "loop"
    /\ calls = 2
    /\ posts = <<>>
    /\ tokens = tokens0
    /\ tokens # None

(***************************************************************************)
(* C4: a call in which no request fails returns exactly the first          *)
(* min(max_activities, N) records of the pages in page order, N being the  *)
(* number of records before the first empty page; never more than          *)
(* max_activities records.                                                 *)
(***************************************************************************)
C4_ResultIsBoundedPrefix ==
    (pc = "done") =>
        LET all == Served(getLog)
            n == Len(getLog)
        IN /\ \A i \in 1..n : getLog[i].ok /\ getLog[i].page = i
           /\ \A i \in 1..(n - 1) : getLog[i].size > 0
           /\ IF n > 0 /\ getLog[n].size = 0
              THEN result = Some(SubSeq(all, 1, Min(max_activities, Len(all))))
              ELSE Len(all) >= max_activities
                   /\ result = Some(SubSeq(all, 1, max_activities))
           /\ Len(result[1]) <= max_activities

C4_Witness ==
    /\ pc = "done"
    /\ Len(getLog) = 2
    /\ Len(Served(getLog)) > max_activities
    /\ Len(result[1]) = max_activities

(***************************************************************************)
(* C5: within one call the page requests carry the indices 1, 2, 3, ... in *)
(* order, and no request follows one that returned zero records (or        *)
(* failed) or follows the accumulator reaching max_activities.             *)
(***************************************************************************)
C5_PagesInOrderAndStop ==
    /\ \A i \in 1..Len(getLog) : getLog[i].page = i
    /\ \A i \in 1..(Len(getLog) - 1) :
          /\ getLog[i].ok
          /\ getLog[i].size > 0
          /\ Len(Served(SubSeq(getLog, 1, i))) < max_activities

C5_Witness ==
    /\ pc = "done"
    /\ Len(getLog) = 3
    /\ getLog[3].size = 0

(***************************************************************************)
(* C6: the refresh token sent in an exchange is the one returned by the    *)
(* most recent successful exchange (the constructor's only before any),    *)
(* and the held credential is the triple that exchange returned.           *)
(***************************************************************************)
C6_RotatedTokenCarriedForward ==
    /\ \A i \in 1..Len(posts) : posts[i].sent = LatestRefreshToken(posts[i].latest)
    /\ RefreshPayload(refresh_token).refresh_token = LatestRefreshToken(lastData)
    /\ lastData # None =>
          tokens = Some([access_token |-> lastData[1].access_token,
                         refresh_token |-> lastData[1].refresh_token,
                         expires_at |-> lastData[1].expires_at])
    /\ lastData = None => tokens = None

C6_Witness ==
    /\ Len(posts) = 2
    /\ posts[2].ok
    /\ posts[2].latest # None
    /\ posts[2].sent # CtorRefreshToken
    /\ refresh_token # posts[2].sent

(***************************************************************************)
(* C7: when a refresh exchange fails the call fails after exactly one      *)
(* exchange attempt, with no activity-listing request, and the held        *)
(* credential and the stored refresh token are as before the call.  The    *)
(* second _ensure_token of the call (C2) can fail after the first one has  *)
(* replaced the credential: this is violated.                              *)
(***************************************************************************)
C7_RefreshFailureLeavesClient ==
    (failedAt = "refresh") =>
        /\ pc = "failed"
        /\ Len(posts) = 1
        /\ getLog = <<>>
        /\ tokens = tokens0
        /\ refresh_token = refresh_token0

(***************************************************************************)
(* C8: when a page request fails the call fails: the page was requested    *)
(* once, it is the last request, and no record is returned.                *)
(***************************************************************************)
C8_PageFailureFailsCall ==
    (failedAt = "page") =>
        /\ pc = "failed"
        /\ result = None
        /\ getLog # <<>>
        /\ ~getLog[Len(getLog)].ok
        /\ \A i \in 1..(Len(getLog) - 1) :
              getLog[i].ok /\ getLog[i].page # getLog[Len(getLog)].page

C8_Witness ==
    /\ failedAt = "page"
    /\ Len(getLog) = 2
    /\ activities # <<>>

(***************************************************************************)
(* C9: for a non-empty input, a record whose start_date_local is an        *)
(* unparseable string or not a string does not make activities_to_df fail; *)
(* its start_date_local, date, year, month and week are missing.  The      *)
(* parser raises on an unparseable string: this is violated.               *)
(***************************************************************************)
C9_BadDateDegrades ==
    (dfpc = "done" /\ raw_acts # <<>> /\ AllColumns(raw_acts)) =>
        /\ df.ok
        /\ \A i \in 1..Len(raw_acts) :
              BadDate(raw_acts[i].start_date_local) =>
                 /\ df.rows[i].start_date_local.nat
                 /\ df.rows[i].date.nat
                 /\ df.rows[i].year.isna
                 /\ df.rows[i].month.nat
                 /\ df.rows[i].week.nat

(***************************************************************************)
(* C10 as stated: for every row of the returned table, pace_min_per_km is  *)
(* present if and only if distance_km > 0.  A row with a positive distance *)
(* and no moving time has no pace: this is violated.                       *)
(***************************************************************************)
C10_PaceIffDistance ==
    (dfpc = "done" /\ df.ok) =>
        \A i \in 1..Len(df.rows) :
            PacePresent(df.rows[i]) <=> Gt0(df.rows[i].distance_km)

(***************************************************************************)
(* C10 amended: for every row of the returned table, pace_min_per_km is    *)
(* present if and only if distance_km > 0 and moving_time_s is present;    *)
(* when present it is (moving_time_s / 60) / distance_km, and it is never  *)
(* computed for a row whose distance is zero or missing.                   *)
(***************************************************************************)
C10_PaceIffDistanceAndTime ==
    (dfpc = "done" /\ df.ok) =>
        /\ Len(df.rows) = Len(raw_acts)
        /\ \A i \in 1..Len(df.rows) :
            LET row == df.rows[i]
                in == raw_acts[i]
            IN /\ PacePresent(row) <=>
                    (in.distance.present /\ in.distance.v > 0 /\ in.moving_time.present)
               /\ Gt0(row.distance_km) <=> (in.distance.present /\ in.distance.v > 0)
               /\ PacePresent(row) =>
                    /\ row.pace_min_per_km.den # 0
                    /\ row.pace_min_per_km.num * 60 * in.distance.v
                         = row.pace_min_per_km.den * in.moving_time.v * 1000

C10_Witness ==
    /\ dfpc = "done"
    /\ df.ok
    /\ Len(df.rows) = 2
    /\ PacePresent(df.rows[1])
    /\ raw_acts[2].distance = Val(0)
    /\ ~PacePresent(df.rows[2])

====
